---- MODULE Spec2Model ----
(***************************************************************************)
(* wrangler-accounts: named, switchable copies of the Wrangler config      *)
(* file.  The model is the command-line program of                         *)
(* src/bin/wrangler-accounts.js run against a small file system: one       *)
(* action per command (a whole process invocation), with the file-system   *)
(* calls of the code applied in the code's order.                          *)
(*                                                                         *)
(* Strings are sequences of one-character strings, paths are sequences of  *)
(* path components (absolute, relative to the home directory).             *)
(***************************************************************************)
EXTENDS Integers, Sequences, FiniteSets, TLC

\* ------------------------------------------------------------------ bounds
\* The clock runs from 0 to MaxClock ticks; TicksPerSec ticks make a second.
MaxClock == 1
TicksPerSec == 1
\* Number of commands run in one behaviour.
MaxOps == 3

\* ----------------------------------------------------------------- strings
\* The characters of /^[A-Za-z0-9._-]+$/ in UTF-16 code unit order.
NameChars ==
  <<"-", ".", "0", "1", "2", "3", "4", "5", "6", "7", "8", "9",
    "A", "B", "C", "D", "E", "F", "G", "H", "I", "J", "K", "L", "M",
    "N", "O", "P", "Q", "R", "S", "T", "U", "V", "W", "X", "Y", "Z",
    "_",
    "a", "b", "c", "d", "e", "f", "g", "h", "i", "j", "k", "l", "m",
    "n", "o", "p", "q", "r", "s", "t", "u", "v", "w", "x", "y", "z">>

Range(s) == {s[i] : i \in 1..Len(s)}
NameCharSet == Range(NameChars)

\* A name the program treats as absent (rest[1] undefined or "").
NoName == <<>>

isValidName(name) ==
  /\ Len(name) > 0
  /\ \A i \in 1..Len(name) : name[i] \in NameCharSet

\* Code unit rank of a character, 0 for one outside NameChars.
CharCode(c) ==
  IF c \in NameCharSet
    THEN CHOOSE i \in 1..Len(NameChars) : NameChars[i] = c
    ELSE 0

\* a < b as Array.prototype.sort() orders strings (by code units).
StrLess(a, b) ==
  \E i \in 1..(Len(a) + 1) :
    /\ \A j \in 1..(i - 1) : j <= Len(b) /\ a[j] = b[j]
    /\ \/ i > Len(a) /\ i <= Len(b)
       \/ i <= Len(a) /\ i <= Len(b) /\ CharCode(a[i]) < CharCode(b[i])

RECURSIVE SortNames(_)
SortNames(S) ==
  IF S = {} THEN <<>>
  ELSE LET m == CHOOSE x \in S : \A y \in S \ {x} : StrLess(x, y)
       IN <<m>> \o SortNames(S \ {m})

Whitespace == {" ", "\n", "\t", "\r"}

RECURSIVE TrimLeft(_)
TrimLeft(s) ==
  IF Len(s) > 0 /\ s[1] \in Whitespace THEN TrimLeft(Tail(s)) ELSE s

RECURSIVE TrimRight(_)
TrimRight(s) ==
  IF Len(s) > 0 /\ s[Len(s)] \in Whitespace
    THEN TrimRight(SubSeq(s, 1, Len(s) - 1))
    ELSE s

\* String.prototype.trim
Trim(s) == TrimRight(TrimLeft(s))

Digit(d) == NameChars[d + 3]

\* String(n) for a natural number n.
RECURSIVE ToDigits(_)
ToDigits(n) ==
  IF n < 10 THEN <<Digit(n)>> ELSE ToDigits(n \div 10) \o <<Digit(n % 10)>>

\* String(n).padStart(2, "0")
pad(n) == IF Len(ToDigits(n)) < 2 THEN <<"0">> \o ToDigits(n) ELSE ToDigits(n)

\* ------------------------------------------------------------------- paths
\* Split a string at "/" into its segments.
RECURSIVE SplitFrom(_, _, _)
SplitFrom(s, i, cur) ==
  IF i > Len(s) THEN <<cur>>
  ELSE IF s[i] = "/" THEN <<cur>> \o SplitFrom(s, i + 1, <<>>)
  ELSE SplitFrom(s, i + 1, Append(cur, s[i]))

Segments(s) == SplitFrom(s, 1, <<>>)

\* path.normalize over the segments: "" and "." vanish, ".." pops.
RECURSIVE Normalize(_, _)
Normalize(acc, segs) ==
  IF segs = <<>> THEN acc
  ELSE LET h == Head(segs)
       IN IF h = <<>> \/ h = <<".">> THEN Normalize(acc, Tail(segs))
          ELSE IF h = <<".", ".">>
            THEN Normalize(IF acc = <<>> THEN acc ELSE SubSeq(acc, 1, Len(acc) - 1),
                           Tail(segs))
          ELSE Normalize(Append(acc, h), Tail(segs))

\* path.join(dir, s) for an absolute, normalized dir.
Join(dir, s) == Normalize(dir, Segments(s))

\* path.dirname
Dirname(p) == IF p = <<>> THEN p ELSE SubSeq(p, 1, Len(p) - 1)

IsPrefix(p, q) == Len(p) <= Len(q) /\ SubSeq(q, 1, Len(p)) = p

Prefixes(p) == {SubSeq(p, 1, k) : k \in 0..Len(p)}

\* The file names the program uses.
ConfigToml == <<"c", "o", "n", "f", "i", "g", ".", "t", "o", "m", "l">>
MetaJson == <<"m", "e", "t", "a", ".", "j", "s", "o", "n">>
ActiveFile == <<"a", "c", "t", "i", "v", "e">>
BackupPrefix == <<"_", "_", "b", "a", "c", "k", "u", "p", "-">>

\* detectProfilesDir without overrides: ~/.config/wrangler-accounts
ProfilesDir ==
  << <<".", "c", "o", "n", "f", "i", "g">>,
     <<"w", "r", "a", "n", "g", "l", "e", "r", "-", "a", "c", "c", "o", "u", "n", "t", "s">> >>

\* detectConfigPath without overrides: ~/.wrangler/config/default.toml
ConfigPath ==
  << <<".", "w", "r", "a", "n", "g", "l", "e", "r">>,
     <<"c", "o", "n", "f", "i", "g">>,
     <<"d", "e", "f", "a", "u", "l", "t", ".", "t", "o", "m", "l">> >>

\* ------------------------------------------------------------- file system
\* A world is the file system plus the fate of the running process:
\*   dirs   the directories, files the regular files with their bytes,
\*   metas  the files holding a serialized metadata record,
\*   res    "ok" while the process runs, else how it ended.
Put(f, k, v) == [x \in DOMAIN f \cup {k} |-> IF x = k THEN v ELSE f[x]]
Drop(f, S) == [x \in DOMAIN f \ S |-> f[x]]

EmptyMap == [x \in {} |-> <<>>]

Running(w) == w.res = "ok"

\* die(message): the process exits; nothing after it runs.
Die(w, kind) == IF Running(w) THEN [w EXCEPT !.res = kind] ELSE w

\* An uncaught exception of a file-system call.
Throw(w) == Die(w, "throw")

IsDir(w, p) == p \in w.dirs
IsFile(w, p) == p \in DOMAIN w.files \/ p \in DOMAIN w.metas

\* fs.existsSync
existsSync(w, p) == IsDir(w, p) \/ IsFile(w, p)

\* fs.mkdirSync(p, {recursive: true})
ensureDir(w, dirPath) ==
  IF ~Running(w) THEN w
  ELSE IF \E q \in Prefixes(dirPath) : IsFile(w, q) THEN Throw(w)
  ELSE [w EXCEPT !.dirs = @ \cup Prefixes(dirPath)]

\* Can a regular file be written at p?
Writable(w, p) == IsDir(w, Dirname(p)) /\ ~IsDir(w, p) /\ p # <<>>

\* fs.writeFileSync(p, data) for text data
writeFileSync(w, p, data) ==
  IF ~Running(w) THEN w
  ELSE IF ~Writable(w, p) THEN Throw(w)
  ELSE [w EXCEPT !.files = Put(@, p, data), !.metas = Drop(@, {p})]

\* fs.writeFileSync(p, JSON.stringify(meta, null, 2))
writeJsonSync(w, p, meta) ==
  IF ~Running(w) THEN w
  ELSE IF ~Writable(w, p) THEN Throw(w)
  ELSE [w EXCEPT !.metas = Put(@, p, meta), !.files = Drop(@, {p})]

\* fs.copyFileSync(src, dst)
copyFileSync(w, src, dst) ==
  IF ~Running(w) THEN w
  ELSE IF ~IsFile(w, src) \/ ~Writable(w, dst) THEN Throw(w)
  ELSE IF src \in DOMAIN w.files
    THEN writeFileSync(w, dst, w.files[src])
    ELSE writeJsonSync(w, dst, w.metas[src])

\* fs.rmSync(p, {recursive: true, force: true})
rmSync(w, p) ==
  IF ~Running(w) THEN w
  ELSE LET gone(q) == IsPrefix(p, q)
       IN [w EXCEPT !.dirs = {q \in @ : ~gone(q)},
                    !.files = Drop(@, {q \in DOMAIN @ : gone(q)}),
                    !.metas = Drop(@, {q \in DOMAIN @ : gone(q)})]

\* fs.unlinkSync(p)
unlinkSync(w, p) ==
  IF ~Running(w) THEN w
  ELSE IF ~IsFile(w, p) THEN Throw(w)
  ELSE [w EXCEPT !.files = Drop(@, {p}), !.metas = Drop(@, {p})]

\* ------------------------------------------------------------------- clock
VARIABLES
  fs,    \* the file system: [dirs, files, metas]
  now,   \* the clock, in ticks
  ops,   \* number of commands run so far
  last   \* the last command run: what it was, how it ended, what it printed

vars == <<fs, now, ops, last>>

\* The local time fields new Date() yields at tick t (one fixed day; the
\* clock of the model stays within its first minute).
LocalTime(t) ==
  [year |-> 2026, month |-> 1, date |-> 1, hours |-> 0, minutes |-> 0,
   seconds |-> (t \div TicksPerSec) % 60]

\* new Date().toISOString(): the instant, to the tick.
toISOString(t) == ToDigits(t)

timestampAt(t) ==
  LET d == LocalTime(t)
  IN ToDigits(d.year) \o pad(d.month) \o pad(d.date) \o <<"-">>
       \o pad(d.hours) \o pad(d.minutes) \o pad(d.seconds)

timestampForFile == timestampAt(now)

\* ------------------------------------------------------- program functions
\* crypto sha256 over the bytes, taken to be collision free.
sha256(data) == <<"sha256:">> \o data

\* fileHash throws when filePath is no readable regular file.
fileHashThrows(w, filePath) == filePath \notin DOMAIN w.files
fileHash(w, filePath) == sha256(w.files[filePath])

\* fs.statSync(p).size of a regular file
statSize(w, p) == Len(w.files[p])

filesEqualThrows(w, pathA, pathB) ==
  /\ existsSync(w, pathA) /\ existsSync(w, pathB)
  /\ fileHashThrows(w, pathA) \/ fileHashThrows(w, pathB)

filesEqual(w, pathA, pathB) ==
  IF ~existsSync(w, pathA) \/ ~existsSync(w, pathB) THEN FALSE
  ELSE IF statSize(w, pathA) # statSize(w, pathB) THEN FALSE
  ELSE fileHash(w, pathA) = fileHash(w, pathB)

\* fs.readdirSync(dir) entries that are directories
ChildDirs(w, dir) ==
  {p[Len(p)] : p \in {q \in w.dirs : Len(q) = Len(dir) + 1 /\ IsPrefix(dir, q)}}

listProfilesThrows(w, profilesDir) == IsFile(w, profilesDir)

listProfiles(w, profilesDir) ==
  IF ~existsSync(w, profilesDir) THEN <<>>
  ELSE SortNames({name \in ChildDirs(w, profilesDir) :
                    existsSync(w, Join(Join(profilesDir, name), ConfigToml))})

\* The metadata record writeMeta builds for the config copy as it is.
MetaOf(w, configPath, name, sourcePath) ==
  [name |-> name,
   savedAt |-> toISOString(now),
   sourcePath |-> sourcePath,
   bytes |-> statSize(w, configPath),
   sha256 |-> fileHash(w, configPath)]

\* A writeMeta that leaves an existing metadata record alone.
writeMetaKeepExisting(w, profileDir, name, sourcePath) ==
  LET configPath == Join(profileDir, ConfigToml)
  IN IF ~Running(w) THEN w
     ELSE IF fileHashThrows(w, configPath) THEN Throw(w)
     ELSE IF existsSync(w, Join(profileDir, MetaJson)) THEN w
     ELSE writeJsonSync(w, Join(profileDir, MetaJson),
                        MetaOf(w, configPath, name, sourcePath))

writeMeta(w, profileDir, name, sourcePath) ==
  LET configPath == Join(profileDir, ConfigToml)
  IN IF ~Running(w) THEN w
     ELSE IF fileHashThrows(w, configPath) THEN Throw(w)
     ELSE writeJsonSync(w, Join(profileDir, MetaJson),
                        MetaOf(w, configPath, name, sourcePath))

setActiveProfile(w, profilesDir, name) ==
  writeFileSync(ensureDir(w, profilesDir), Join(profilesDir, ActiveFile),
                name \o <<"\n">>)

\* An optional name: <<>> for null, <<n>> for the name n.
Null == <<>>
Some(n) == <<n>>

getActiveProfileThrows(w, profilesDir) ==
  LET activePath == Join(profilesDir, ActiveFile)
  IN existsSync(w, activePath) /\ activePath \notin DOMAIN w.files

getActiveProfile(w, profilesDir) ==
  LET activePath == Join(profilesDir, ActiveFile)
  IN IF ~existsSync(w, activePath) THEN Null
     ELSE LET value == Trim(w.files[activePath])
          IN IF Len(value) > 0 THEN Some(value) ELSE Null

BackupName(t) == BackupPrefix \o timestampAt(t)

\* A backupCurrentConfig that copies the config and writes no metadata.
backupCurrentConfigNoMeta(w, configPath, profilesDir) ==
  LET backupName == BackupPrefix \o timestampForFile
      backupDir == Join(profilesDir, backupName)
      w1 == ensureDir(w, backupDir)
  IN copyFileSync(w1, configPath, Join(backupDir, ConfigToml))

backupCurrentConfig(w, configPath, profilesDir) ==
  LET backupName == BackupPrefix \o timestampForFile
      backupDir == Join(profilesDir, backupName)
      w1 == ensureDir(w, backupDir)
      w2 == copyFileSync(w1, configPath, Join(backupDir, ConfigToml))
  IN writeMeta(w2, backupDir, backupName, configPath)

findMatchingProfileThrows(w, profilesDir, configPath) ==
  /\ existsSync(w, configPath)
  /\ \/ fileHashThrows(w, configPath)
     \/ listProfilesThrows(w, profilesDir)
     \/ LET profiles == listProfiles(w, profilesDir)
        IN \E i \in 1..Len(profiles) :
             /\ fileHashThrows(w, Join(Join(profilesDir, profiles[i]), ConfigToml))
             /\ \A j \in 1..(i - 1) :
                  fileHash(w, Join(Join(profilesDir, profiles[j]), ConfigToml))
                    # fileHash(w, configPath)

\* A findMatchingProfile whose loop starts at the second profile.
findMatchingProfileSkipFirst(w, profilesDir, configPath) ==
  IF ~existsSync(w, configPath) THEN Null
  ELSE LET configHash == fileHash(w, configPath)
           profiles == listProfiles(w, profilesDir)
           hits == {i \in 2..Len(profiles) :
                      fileHash(w, Join(Join(profilesDir, profiles[i]), ConfigToml))
                        = configHash}
       IN IF hits = {} THEN Null
          ELSE Some(profiles[CHOOSE i \in hits : \A j \in hits : i <= j])

findMatchingProfile(w, profilesDir, configPath) ==
  IF ~existsSync(w, configPath) THEN Null
  ELSE LET configHash == fileHash(w, configPath)
           profiles == listProfiles(w, profilesDir)
           hits == {i \in 1..Len(profiles) :
                      fileHash(w, Join(Join(profilesDir, profiles[i]), ConfigToml))
                        = configHash}
       IN IF hits = {} THEN Null
          ELSE Some(profiles[CHOOSE i \in hits : \A j \in hits : i <= j])

saveProfile(w, name, configPath, profilesDir, force) ==
  LET w1 == IF ~isValidName(name) THEN Die(w, "InvalidName") ELSE w
      w2 == IF ~existsSync(w1, configPath) THEN Die(w1, "ConfigNotFound") ELSE w1
      profileDir == Join(profilesDir, name)
      w3 == IF existsSync(w2, profileDir) /\ ~force
              THEN Die(w2, "ProfileExists") ELSE w2
      w4 == ensureDir(w3, profileDir)
      w5 == copyFileSync(w4, configPath, Join(profileDir, ConfigToml))
  IN writeMeta(w5, profileDir, name, configPath)

\* useProfile: the world it leaves, and the backup name it returns.
useProfileBackup(w, name, configPath, profilesDir, backup) ==
  LET profileConfig == Join(Join(profilesDir, name), ConfigToml)
  IN /\ isValidName(name)
     /\ existsSync(w, profileConfig)
     /\ backup
     /\ existsSync(w, configPath)
     /\ ~filesEqualThrows(w, configPath, profileConfig)
     /\ ~filesEqual(w, configPath, profileConfig)

useProfile(w, name, configPath, profilesDir, backup) ==
  LET w1 == IF ~isValidName(name) THEN Die(w, "InvalidName") ELSE w
      profileDir == Join(profilesDir, name)
      profileConfig == Join(profileDir, ConfigToml)
      w2 == IF ~existsSync(w1, profileConfig)
              THEN Die(w1, "ProfileNotFound") ELSE w1
      w3 == IF ~Running(w2) THEN w2
            ELSE IF backup /\ existsSync(w2, configPath)
                    /\ filesEqualThrows(w2, configPath, profileConfig)
              THEN Throw(w2)
            ELSE IF useProfileBackup(w2, name, configPath, profilesDir, backup)
              THEN backupCurrentConfig(w2, configPath, profilesDir)
            ELSE w2
      w4 == ensureDir(w3, Dirname(configPath))
      w5 == copyFileSync(w4, profileConfig, configPath)
  IN setActiveProfile(w5, profilesDir, name)

removeProfile(w, name, profilesDir) ==
  LET w1 == IF ~isValidName(name) THEN Die(w, "InvalidName") ELSE w
      profileDir == Join(profilesDir, name)
      w2 == IF ~existsSync(w1, profileDir) THEN Die(w1, "ProfileNotFound") ELSE w1
      w3 == rmSync(w2, profileDir)
  IN IF ~Running(w3) THEN w3
     ELSE IF getActiveProfileThrows(w3, profilesDir) THEN Throw(w3)
     ELSE IF getActiveProfile(w3, profilesDir) = Some(name)
       THEN LET activePath == Join(profilesDir, ActiveFile)
            IN IF existsSync(w3, activePath) THEN unlinkSync(w3, activePath) ELSE w3
     ELSE w3

\* ---------------------------------------------------------------- commands
\* Config file contents the login tool may leave behind.
Contents == {<<"A">>, <<"B">>}

DotName == <<".">>
DotDotName == <<".", ".">>
WorkName == <<"w">>

\* The names given on the command line: names the pattern accepts, among
\* them the name of the backup made in the first second, and one it rejects.
ValidNames == {WorkName, DotName, DotDotName, ActiveFile}
FirstBackup == BackupName(0)
InvalidNames == {<<".", ".", "/", "e", "t", "c">>}

SaveNames == ValidNames \cup InvalidNames
LoginNames == {WorkName} \cup InvalidNames
UseNames == ValidNames \cup {FirstBackup} \cup InvalidNames
RemoveNames == ValidNames \cup {FirstBackup} \cup InvalidNames

\* What `wrangler login` may do: exit status, and the config it writes.
LoginTools ==
  {[status |-> 1, writes |-> FALSE, data |-> <<>>],
   [status |-> 0, writes |-> FALSE, data |-> <<>>]}
    \cup {[status |-> 0, writes |-> TRUE, data |-> c] : c \in Contents}

World(f) == [dirs |-> f.dirs, files |-> f.files, metas |-> f.metas, res |-> "ok"]
Store(w) == [dirs |-> w.dirs, files |-> w.files, metas |-> w.metas]

\* The fields of the payloads the commands print.
NoOut ==
  [profiles |-> <<>>, active |-> Null, match |-> Null, backup |-> Null,
   existed |-> FALSE, configExists |-> FALSE]

\* fs.readdirSync(dir): the names of all entries of dir
Entries(w, dir) ==
  {p[Len(p)] : p \in {q \in w.dirs \cup DOMAIN w.files \cup DOMAIN w.metas :
                        Len(q) = Len(dir) + 1 /\ IsPrefix(dir, q)}}

\* The record of a command: op, name, flag (force or backup), how the
\* process ended (res), what it printed (out), whether it ran the login
\* tool, whether the profiles directory had no entry when it started, and
\* whether it follows a successful save of the same name into an empty
\* profiles directory.
Record(op, name, flag, w, out, ran) ==
  [op |-> op, name |-> name, flag |-> flag, res |-> w.res,
   out |-> IF Running(w) THEN out ELSE NoOut, loginRan |-> ran,
   preEmpty |-> Entries(World(fs), ProfilesDir) = {},
   follows |-> /\ last.op = "save" /\ last.res = "ok" /\ last.preEmpty
               /\ last.name = name]

Finish(op, name, flag, w, out, ran) ==
  /\ ops < MaxOps
  /\ fs' = Store(w)
  /\ ops' = ops + 1
  /\ last' = Record(op, name, flag, w, out, ran)
  /\ UNCHANGED now

\* runWranglerLogin: the tool acts on the live config, then its status is read.
runWranglerLogin(w, tool) ==
  LET w1 == IF tool.writes
              THEN writeFileSync(ensureDir(w, Dirname(ConfigPath)), ConfigPath, tool.data)
              ELSE w
  IN IF tool.status # 0 THEN Die(w1, "ExternalToolFailure") ELSE w1

\* main up to its call of ensureDir(profilesDir), for save, login and use.
mainEnsure(w, name) ==
  LET w1 == IF name = NoName THEN Die(w, "MissingName") ELSE w
  IN ensureDir(w1, ProfilesDir)

mainList(w) ==
  IF listProfilesThrows(w, ProfilesDir) THEN Throw(w) ELSE w

mainStatus(w) ==
  IF \/ listProfilesThrows(w, ProfilesDir)
     \/ getActiveProfileThrows(w, ProfilesDir)
     \/ findMatchingProfileThrows(w, ProfilesDir, ConfigPath)
    THEN Throw(w) ELSE w

mainSave(w, name, force) ==
  saveProfile(mainEnsure(w, name), name, ConfigPath, ProfilesDir, force)

mainLoginBefore(w, name, tool) == runWranglerLogin(mainEnsure(w, name), tool)

mainLogin(w, name, tool) ==
  LET w3 == mainLoginBefore(w, name, tool)
      w4 == IF ~existsSync(w3, ConfigPath) THEN Die(w3, "ConfigNotFound") ELSE w3
  IN saveProfile(w4, name, ConfigPath, ProfilesDir, TRUE)

mainUse(w, name, backup) ==
  useProfile(mainEnsure(w, name), name, ConfigPath, ProfilesDir, backup)

mainRemove(w, name) ==
  LET w1 == IF name = NoName THEN Die(w, "MissingName") ELSE w
  IN removeProfile(w1, name, ProfilesDir)

List ==
  LET w == mainList(World(fs))
  IN Finish("list", NoName, FALSE, w,
            [NoOut EXCEPT !.profiles = listProfiles(w, ProfilesDir)], FALSE)

Status ==
  LET w == mainStatus(World(fs))
  IN Finish("status", NoName, FALSE, w,
            [NoOut EXCEPT !.profiles = listProfiles(w, ProfilesDir),
                          !.active = getActiveProfile(w, ProfilesDir),
                          !.match = findMatchingProfile(w, ProfilesDir, ConfigPath),
                          !.configExists = existsSync(w, ConfigPath)],
            FALSE)

Save(name, force) ==
  LET w == mainSave(World(fs), name, force)
  IN Finish("save", name, force, w,
            [NoOut EXCEPT !.existed =
               existsSync(mainEnsure(World(fs), name), Join(ProfilesDir, name))],
            FALSE)

Login(name, tool) ==
  LET w == mainLogin(World(fs), name, tool)
      before == mainLoginBefore(World(fs), name, tool)
  IN Finish("login", name, TRUE, w,
            [NoOut EXCEPT !.existed = existsSync(before, Join(ProfilesDir, name))],
            Running(mainEnsure(World(fs), name)))

Use(name, backup) ==
  LET w0 == mainEnsure(World(fs), name)
      w == mainUse(World(fs), name, backup)
  IN Finish("use", name, backup, w,
            [NoOut EXCEPT !.backup =
               IF useProfileBackup(w0, name, ConfigPath, ProfilesDir, backup)
                 THEN Some(BackupPrefix \o timestampForFile) ELSE Null],
            FALSE)

Remove(name) ==
  Finish("remove", name, FALSE, mainRemove(World(fs), name), NoOut, FALSE)

Tick ==
  /\ now < MaxClock
  /\ now' = now + 1
  /\ UNCHANGED <<fs, ops, last>>

\* The live config belongs to Wrangler: it (or the user) rewrites it
\* between two runs of the program.  An edit is no command and is not
\* counted; none is taken once the last command has run.
Edit(data) ==
  LET w == World(fs)
  IN /\ ops < MaxOps
     /\ ConfigPath \in DOMAIN fs.files => fs.files[ConfigPath] # data
     /\ fs' = Store(writeFileSync(ensureDir(w, Dirname(ConfigPath)), ConfigPath, data))
     /\ last' = Record("edit", NoName, FALSE, w, NoOut, FALSE)
     /\ UNCHANGED <<now, ops>>

\* The home directory before the program has ever run: no profiles
\* directory; the live config may or may not be there.
InitFs(hasConfig, data) ==
  [dirs |-> Prefixes(Dirname(ConfigPath)),
   files |-> IF hasConfig THEN Put(EmptyMap, ConfigPath, data) ELSE EmptyMap,
   metas |-> [x \in {} |-> NoOut]]

Init ==
  /\ \E hasConfig \in BOOLEAN, data \in Contents : fs = InitFs(hasConfig, data)
  /\ now = 0
  /\ ops = 0
  /\ last = [op |-> "none", name |-> NoName, flag |-> FALSE, res |-> "ok",
             out |-> NoOut, loginRan |-> FALSE, preEmpty |-> TRUE,
             follows |-> FALSE]

Next ==
  \/ List
  \/ Status
  \/ \E name \in SaveNames, force \in BOOLEAN : Save(name, force)
  \/ \E name \in LoginNames, tool \in LoginTools : Login(name, tool)
  \/ \E name \in UseNames, backup \in BOOLEAN : Use(name, backup)
  \/ \E name \in RemoveNames : Remove(name)
  \/ \E data \in Contents : Edit(data)
  \/ Tick

Spec == Init /\ [][Next]_vars

\* ------------------------------------------------------------- observations
\* What list and status would print in the current state.
ListNow == listProfiles(World(fs), ProfilesDir)
Listed(f) == Range(listProfiles(World(f), ProfilesDir))
StatusCompletes == Running(mainStatus(World(fs)))
StatusActive == getActiveProfile(World(fs), ProfilesDir)
StatusMatch == findMatchingProfile(World(fs), ProfilesDir, ConfigPath)

\* The value of the active pointer in file system f: unset without the file.
Pointer(f) ==
  IF Join(ProfilesDir, ActiveFile) \in DOMAIN f.files
    THEN getActiveProfile(World(f), ProfilesDir)
    ELSE Null

ProfileDirOf(name) == Join(ProfilesDir, name)
ProfileConfigOf(name) == Join(ProfileDirOf(name), ConfigToml)
ProfileMetaOf(name) == Join(ProfileDirOf(name), MetaJson)

\* A step that runs a command to its end (Tick and Edit run none).
Ran(op) == ops' = ops + 1 /\ last'.op = op
RanOk(op) == Ran(op) /\ last'.res = "ok"

Did(op) == last.op = op
DidOk(op) == last.op = op /\ last.res = "ok"

\* --------------------------------------------------------------------- C1
\* C1: after a successful save(n) of a name the pattern accepts, list()
\* contains n exactly once.
C1_SaveThenListedOnce ==
  DidOk("save") =>
    Cardinality({i \in 1..Len(ListNow) : ListNow[i] = last.name}) = 1

C3_UseInstallsProfile ==
  [][RanOk("use") /\ last'.name \in Listed(fs) =>
       LET n == last'.name
           held == fs.files[ProfileConfigOf(n)]
       IN /\ fs'.files[ConfigPath] = held
          /\ Pointer(fs') = Some(n)
          /\ (\A m \in Listed(fs') \ {n} : fs'.files[ProfileConfigOf(m)] # held)
               => findMatchingProfile(World(fs'), ProfilesDir, ConfigPath) = Some(n)
    ]_vars

\* --------------------------------------------------------------------- C4
\* C4: activate(n, backup) with a live config that differs from profile n
\* adds exactly one new __backup-<timestamp> profile holding the old live
\* config; otherwise the set of profiles is unchanged.
C4_BackupAddsOneProfile ==
  [][RanOk("use") =>
       LET n == last'.name
           differs == /\ last'.flag
                      /\ ConfigPath \in DOMAIN fs.files
                      /\ fs.files[ConfigPath] # fs.files[ProfileConfigOf(n)]
       IN IF differs
            THEN \E b \in Listed(fs') \ Listed(fs) :
                   /\ Listed(fs') = Listed(fs) \cup {b}
                   /\ IsPrefix(BackupPrefix, b)
                   /\ fs'.files[ProfileConfigOf(b)] = fs.files[ConfigPath]
            ELSE Listed(fs') = Listed(fs)
    ]_vars

\* --------------------------------------------------------------------- C5
\* C5: a successful remove(n) deletes the profile and clears the pointer
\* if and only if the pointer was n; any other pointer value is kept.
C5_RemoveClearsOnlyOwnPointer ==
  [][RanOk("remove") =>
       LET n == last'.name
       IN /\ ~existsSync(World(fs'), ProfileDirOf(n))
          /\ Pointer(fs') = IF Pointer(fs) = Some(n) THEN Null ELSE Pointer(fs)
    ]_vars

\* --------------------------------------------------------------------- C6
\* C6: every profile list() returns has a metadata record whose sha256 and
\* bytes are the digest and the size of the config copy beside it.
C6_MetaMatchesConfig ==
  \A n \in Range(ListNow) :
    /\ ProfileMetaOf(n) \in DOMAIN fs.metas
    /\ ProfileConfigOf(n) \in DOMAIN fs.files
    /\ fs.metas[ProfileMetaOf(n)].sha256 = sha256(fs.files[ProfileConfigOf(n)])
    /\ fs.metas[ProfileMetaOf(n)].bytes = Len(fs.files[ProfileConfigOf(n)])

C6_Witness ==
  /\ WorkName \in Range(ListNow)
  /\ \E b \in Range(ListNow) :
       /\ IsPrefix(BackupPrefix, b)
       /\ fs.files[ProfileConfigOf(b)] # fs.files[ProfileConfigOf(WorkName)]
       /\ fs.metas[ProfileMetaOf(b)].sha256 # fs.metas[ProfileMetaOf(WorkName)].sha256

\* --------------------------------------------------------------------- C7
\* C7: a save, use, remove or login that ends in InvalidName,
\* ConfigNotFound (save), ProfileExists or ProfileNotFound leaves the file
\* system as it was, and a login with an invalid name runs no login tool.
C7_FailuresChangeNothing ==
  [][(/\ ops' = ops + 1
      /\ last'.op \in {"save", "use", "remove", "login"}
      /\ \/ last'.res \in {"InvalidName", "ProfileExists", "ProfileNotFound"}
         \/ last'.res = "ConfigNotFound" /\ last'.op = "save")
       => /\ fs' = fs
          /\ (last'.op = "login" /\ last'.res = "InvalidName") => ~last'.loginRan
    ]_vars

\* --------------------------------------------------------------------- C8
\* The profile of name n in file system f: config bytes and metadata.
ProfileOf(f, n) ==
  [config |-> f.files[ProfileConfigOf(n)], meta |-> f.metas[ProfileMetaOf(n)]]

\* A forced save of the name just saved, the live config untouched between.
SavedAgain ==
  /\ DidOk("save")
  /\ RanOk("save") /\ last'.name = last.name /\ last'.flag

\* C8 (as claimed): a second forced save(n) of the same live config leaves
\* the profile's config bytes and whole metadata record as the first did.
C8_SaveTwiceIdentical_Claimed ==
  [][SavedAgain => ProfileOf(fs', last.name) = ProfileOf(fs, last.name)]_vars

\* C8 (amended): a second forced save(n) of the same live config leaves the
\* config bytes and the metadata fields name, sourcePath, bytes and sha256
\* as the first did; savedAt is the time of the second save.
C8_SaveTwiceIdenticalButSavedAt ==
  [][SavedAgain =>
       LET once == ProfileOf(fs, last.name)
           twice == ProfileOf(fs', last.name)
       IN /\ twice.config = once.config
          /\ twice.meta = [once.meta EXCEPT !.savedAt = toISOString(now)]
    ]_vars

C8_Witness ==
  /\ DidOk("save") /\ last.flag /\ last.out.existed
  /\ last.name = WorkName
  /\ now > 0
  /\ fs.metas[ProfileMetaOf(WorkName)].savedAt = toISOString(now)
  /\ fs.files[ProfileConfigOf(WorkName)] = fs.files[ConfigPath]

\* --------------------------------------------------------------------- C9
\* C9: every name save, activate or remove accepts resolves to a strict
\* descendant of the profiles directory other than the pointer file, and
\* every name that resolves elsewhere is rejected with InvalidName.
C9_AcceptedNamesStayInside ==
  (Did("save") \/ Did("use") \/ Did("remove")) =>
    LET loc == ProfileDirOf(last.name)
        inside == /\ IsPrefix(ProfilesDir, loc)
                  /\ loc # ProfilesDir
                  /\ loc # Join(ProfilesDir, ActiveFile)
    IN (last.res = "InvalidName") <=> ~inside

\* -------------------------------------------------------------------- C10
\* C10: status and list complete without error and change nothing.
C10_ReadOnlyCommandsSucceed ==
  /\ [](Did("list") \/ Did("status") => last.res = "ok")
  /\ [][Ran("list") \/ Ran("status") => fs' = fs]_vars

\* -------------------------------------------------------------------- C11
\* C11: whenever the active pointer is set it names a profile list()
\* returns, and the pointer changes only through a completed activate (to
\* the activated name) or a completed remove of the profile it names (to
\* unset).
C11_PointerNeverDangles ==
  /\ [](Pointer(fs) # Null => Pointer(fs)[1] \in Listed(fs))
  /\ [][Pointer(fs') # Pointer(fs) =>
          \/ RanOk("use") /\ Pointer(fs') = Some(last'.name)
          \/ RanOk("remove") /\ Pointer(fs) = Some(last'.name)
               /\ Pointer(fs') = Null
       ]_vars

====
